---- MODULE Spec2Model ----
(***************************************************************************)
(* Logistics health assessment system: scoring and aggregation, survey     *)
(* submission and edit, user management and survey visibility.             *)
(*                                                                         *)
(* Python floats are modelled as exact rationals <<n, d>> (d > 0, lowest   *)
(* terms); non-finite floats are outside the model.  ORM rows are plain    *)
(* records; None is the string "NULL" for text columns and the empty       *)
(* sequence for optional numbers.  AuditLog rows are write-only (no        *)
(* handler reads them) and are left out.                                   *)
(***************************************************************************)
EXTENDS Integers, Sequences, FiniteSets, TLC

VARIABLES
    calc,             \* the pure-function call under test (scoring.py)
    ai,               \* the feedback call under test (ai.py)
    users,            \* table users: row id -> row, or DeletedRow
    session,          \* st.session_state of the browser session
    today,            \* date.today(), as a month number
    surveys,          \* table surveys: row id -> row
    responses,        \* table responses: set of rows
    category_scores,  \* table category_scores: set of rows
    ai_feedback,      \* table ai_feedback: rows in insertion order
    run,              \* position and locals of the survey page's submit run
    submits,          \* number of survey form submissions so far
    faults,           \* number of database failures so far
    admin_ops,        \* number of user-management submissions so far
    admin_msg         \* what the Admin page reported for the last submission

db_vars == <<surveys, responses, category_scores, ai_feedback>>
survey_vars == <<db_vars, run, submits, faults>>
vars == <<calc, ai, users, session, today, surveys, responses, category_scores,
          ai_feedback, run, submits, faults, admin_ops, admin_msg>>
user_vars == <<users, admin_ops, admin_msg>>

(***************************************************************************)
(* Rational arithmetic standing for float arithmetic.                      *)
(***************************************************************************)
Abs(x) == IF x < 0 THEN -x ELSE x

RECURSIVE Gcd(_, _)
Gcd(a, b) == IF b = 0 THEN a ELSE Gcd(b, a % b)

Rat(n, d) ==
    LET g == Gcd(Abs(n), Abs(d))
        s == IF d < 0 THEN -1 ELSE 1
    IN  IF n = 0 THEN <<0, 1>> ELSE <<(s * n) \div g, (s * d) \div g>>

RInt(i) == <<i, 1>>
RAdd(x, y) == Rat(x[1] * y[2] + y[1] * x[2], x[2] * y[2])
RMul(x, y) == Rat(x[1] * y[1], x[2] * y[2])
RDiv(x, y) == Rat(x[1] * y[2], x[2] * y[1])
RLt(x, y) == x[1] * y[2] < y[1] * x[2]
RLe(x, y) == x[1] * y[2] <= y[1] * x[2]
RZero == RInt(0)
RHundred == RInt(100)

None == <<>>
Some(v) == <<v>>

\* The outcome of a Python call: a returned value or a raised exception.
Returned(v) == [exc |-> "none", val |-> v]
Raised(e) == [exc |-> e, val |-> RZero]

(***************************************************************************)
(* scoring.py                                                              *)
(***************************************************************************)
\* Python's float division: raises ZeroDivisionError on a zero divisor.
PyDiv(a, b) ==
    IF b = 0 THEN Raised("ZeroDivisionError") ELSE Returned(Rat(a, b))

\* The clamp without its upper limit: max(0.0, x).
Clamp_no_upper(x) == IF RLt(x, RZero) THEN RZero ELSE x

\* max(0.0, min(100.0, x)) and the two ifs of compute_question_score.
Clamp(x) ==
    LET lo == IF RLt(x, RZero) THEN RZero ELSE x
    IN  IF RLt(RHundred, lo) THEN RHundred ELSE lo

\* compute_question_score dividing the target by the actual for both kinds.
compute_question_score_inverted(actual, target, lower_is_better) ==
    IF target = None \/ target = Some(0)
    THEN Returned(RZero)
    ELSE LET q == PyDiv(target[1], actual)
         IN  IF q.exc # "none" THEN q
             ELSE Returned(Clamp(RMul(q.val, RHundred)))

\* compute_question_score dividing the actual by the target for both kinds.
compute_question_score_direct(actual, target, lower_is_better) ==
    IF target = None \/ target = Some(0)
    THEN Returned(RZero)
    ELSE Returned(Clamp(RMul(Rat(actual, target[1]), RHundred)))

\* compute_question_score without the test of the target.
compute_question_score_unguarded(actual, target, lower_is_better) ==
    LET t == IF target = None THEN 0 ELSE target[1]
        q == IF lower_is_better THEN PyDiv(t, actual) ELSE PyDiv(actual, t)
    IN  IF q.exc # "none" THEN q
        ELSE Returned(Clamp(RMul(q.val, RHundred)))

\* compute_question_score(actual, target, lower_is_better); target is an
\* optional integer, actual an integer.
compute_question_score(actual, target, lower_is_better) ==
    IF target = None \/ target = Some(0)
    THEN Returned(RZero)
    ELSE LET q == IF lower_is_better
                  THEN PyDiv(target[1], actual)
                  ELSE PyDiv(actual, target[1])
         IN  IF q.exc # "none" THEN q
             ELSE Returned(Clamp(RMul(q.val, RHundred)))

\* One pass of the inner loop of compute_survey_scores over score_items:
\* <<weighted sum, total weight>> of a list of <<score, weight>> pairs.
RECURSIVE SumItems(_)
SumItems(items) ==
    IF items = <<>> THEN <<RZero, RZero>>
    ELSE LET rest == SumItems(Tail(items))
             w == RDiv(RInt(Head(items)[2]), RHundred)
         IN  <<RAdd(rest[1], RMul(Head(items)[1], w)), RAdd(rest[2], w)>>

RECURSIVE ConcatItems(_)
ConcatItems(cats) ==
    IF cats = <<>> THEN <<>> ELSE Head(cats)[2] \o ConcatItems(Tail(cats))

\* A weighted mean as both means of compute_survey_scores take it:
\* weighted_sum / total_weight if total_weight > 0 else 0.0.
WeightedMean(s) ==
    IF RLt(RZero, s[2])
    THEN IF s[2][1] = 0 THEN Raised("ZeroDivisionError")
         ELSE Returned(RDiv(s[1], s[2]))
    ELSE Returned(RZero)

\* compute_survey_scores with the overall score taken as the plain mean of
\* the category scores.
compute_survey_scores_mean_of_means(cats) ==
    LET per == [i \in 1..Len(cats) |-> WeightedMean(SumItems(cats[i][2]))]
        means == [i \in 1..Len(cats) |-> <<per[i].val, 100>>]
        all == WeightedMean(SumItems(means))
    IN  [exc |-> "none", overall |-> all.val,
         per_category |-> {<<cats[i][1], per[i].val>> : i \in 1..Len(cats)}]

\* compute_survey_scores with the result keyed by the position of a
\* category in the dict.
compute_survey_scores_by_position(cats) ==
    LET per == [i \in 1..Len(cats) |-> WeightedMean(SumItems(cats[i][2]))]
        all == WeightedMean(SumItems(ConcatItems(cats)))
    IN  [exc |-> all.exc, overall |-> all.val,
         per_category |-> {<<i, per[i].val>> : i \in 1..Len(cats)}]

\* compute_survey_scores(cat_id_to_scores): cats is the dict in insertion
\* order, a sequence of <<cid, score_items>>.  Result: overall and
\* cid -> score as a set of pairs, or the exception of a division.
compute_survey_scores(cats) ==
    LET per == [i \in 1..Len(cats) |-> WeightedMean(SumItems(cats[i][2]))]
        all == WeightedMean(SumItems(ConcatItems(cats)))
        bad == {i \in 1..Len(cats) : per[i].exc # "none"}
    IN  [exc |-> IF bad # {} THEN "ZeroDivisionError" ELSE all.exc,
         overall |-> all.val,
         per_category |-> {<<cats[i][1], per[i].val>> : i \in 1..Len(cats)}]

\* Python floats round every operation to a binary mantissa.  The same
\* arithmetic with a mantissa of MantissaBits bits, round half to even.
MantissaBits == 8
RECURSIVE Pow2(_)
Pow2(k) == IF k = 0 THEN 1 ELSE 2 * Pow2(k - 1)
\* The mantissa scaling of a / d: <<num, den, e>> with a / d = num / den * 2^e
\* and 2^(MantissaBits-1) <= num / den < 2^MantissaBits.
RECURSIVE Normalize(_, _, _)
Normalize(a, d, e) ==
    IF a < Pow2(MantissaBits - 1) * d THEN Normalize(2 * a, d, e - 1)
    ELSE IF a >= Pow2(MantissaBits) * d THEN Normalize(a, 2 * d, e + 1)
    ELSE <<a, d, e>>

RoundFloat(x) ==
    IF x[1] = 0 THEN RZero
    ELSE LET n == Normalize(Abs(x[1]), x[2], 0)
             q == n[1] \div n[2]
             r == n[1] % n[2]
             m == IF 2 * r > n[2] \/ (2 * r = n[2] /\ q % 2 = 1)
                  THEN q + 1 ELSE q
             s == IF x[1] < 0 THEN -1 ELSE 1
         IN  IF n[3] < 0 THEN Rat(s * m, Pow2(-n[3]))
             ELSE RInt(s * m * Pow2(n[3]))


\* The inner loop of compute_survey_scores in floats, from the first item
\* on: acc is <<weighted sum, total weight>>.
RECURSIVE FloatSumItems(_, _, _)
FloatSumItems(items, k, acc) ==
    IF k > Len(items) THEN acc
    ELSE LET w == RoundFloat(RDiv(RInt(items[k][2]), RHundred))
         IN  FloatSumItems(items, k + 1,
                 <<RoundFloat(RAdd(acc[1], RoundFloat(RMul(RoundFloat(items[k][1]), w)))),
                   RoundFloat(RAdd(acc[2], w))>>)

FloatMean(s) == IF RLt(RZero, s[2]) THEN RoundFloat(RDiv(s[1], s[2])) ELSE RZero

\* compute_survey_scores in floats.
compute_survey_scores_rounded(cats) ==
    [exc |-> "none",
     overall |-> FloatMean(FloatSumItems(ConcatItems(cats), 1, <<RZero, RZero>>)),
     per_category |->
         {<<cats[i][1], FloatMean(FloatSumItems(cats[i][2], 1, <<RZero, RZero>>))>> :
             i \in 1..Len(cats)}]

\* No call of a scoring function has been made yet.
NoAgg == [exc |-> "none", overall |-> RZero, per_category |-> {}]

CalcIdle == [fn |-> "none", actual |-> 0, target |-> None, lib |-> FALSE,
             formula |-> "none", out |-> Returned(RZero), cats |-> <<>>,
             agg |-> NoAgg, agg_rounded |-> NoAgg, expr |-> <<>>,
             result |-> None]

(***************************************************************************)
(* mappings.json, survey_definitions.py, bootstrap.py, auth.py             *)
(***************************************************************************)
NULL == "NULL"
DASH == "DASH"      \* the placeholder option of an empty selectbox

Levels == {"Zone", "Region", "City", "Branch"}
Roles == {"Admin"} \cup Levels

\* The zone/region/city/branch tree of mappings.json, as its branch leaves.
MAPPINGS ==
    { <<"East", "CCU", "KOLKATA", "K01">>,
      <<"East", "DEL", "DELHI", "D01">>,
      <<"West", "BOM", "MUMBAI", "M01">> }

get_zones == {l[1] : l \in MAPPINGS}
get_regions(zone) == {l[2] : l \in {k \in MAPPINGS : k[1] = zone}}
get_cities(zone, region) ==
    {l[3] : l \in {k \in MAPPINGS : k[1] = zone /\ k[2] = region}}
get_branches(zone, region, city) ==
    {l[4] : l \in {k \in MAPPINGS : k[1] = zone /\ k[2] = region /\ k[3] = city}}

\* Two categories of the catalog with one question of each formula kind
\* (Zone level: questions 1 and 3 of category 1, question 4 of category 2).
ModelCategories ==
    << [name |-> "Operational Efficiency",
        questions |-> << [weight |-> 10, formula |-> "RAW_PERCENT", target |-> Some(100)],
                         [weight |-> 10, formula |-> "LIB", target |-> Some(24)] >>],
       [name |-> "Compliance & Safety",
        questions |-> << [weight |-> 10, formula |-> "HIB", target |-> Some(100)] >>] >>

FRAMEWORK(role) == IF role \in Levels THEN ModelCategories ELSE <<>>

UserRow(emp, role, z, r, c, b) ==
    [employee_id |-> emp, role |-> role, zone_id |-> z, region_id |-> r,
     city_id |-> c, branch_id |-> b]
DeletedRow == UserRow(NULL, NULL, NULL, NULL, NULL, NULL)

\* bootstrap.main(): the users of a fresh installation.
BootstrapUsers ==
    << UserRow("admin", "Admin", NULL, NULL, NULL, NULL),
       UserRow("zone1", "Zone", "East", NULL, NULL, NULL),
       UserRow("region1", "Region", "East", "CCU", NULL, NULL),
       UserRow("city1", "City", "East", "CCU", "KOLKATA", NULL),
       UserRow("branch1", "Branch", "East", "CCU", "KOLKATA", "K01"),
       UserRow("C32722", "Admin", NULL, NULL, NULL, NULL) >>

UserIds == {i \in 1..Len(users) : users[i] # DeletedRow}

\* ensure_session(): nobody is logged in.
NoSession ==
    [user_id |-> 0, user_role |-> NULL, user_zone_id |-> NULL,
     user_region_id |-> NULL, user_city_id |-> NULL, user_branch_id |-> NULL]

\* login_user(user): the session copies the row as it is at login.
login_user(id) ==
    [user_id |-> id, user_role |-> users[id].role,
     user_zone_id |-> users[id].zone_id, user_region_id |-> users[id].region_id,
     user_city_id |-> users[id].city_id, user_branch_id |-> users[id].branch_id]

(***************************************************************************)
(* ai.py.  A text is the sequence of its parts; an HTTP attempt is named by *)
(* what requests.post does.                                                *)
(***************************************************************************)
deepseek_max_retries == 3
base_delay == 1
default_retry_after == 60

HttpResults ==
    {"ok", "malformed", "timeout", "connection", "s429", "s500", "s401", "s400"}

AiReturned(text, posts, sleeps) ==
    [exc |-> "none", text |-> text, posts |-> posts, sleeps |-> sleeps]
AiRaised(e, posts, sleeps) ==
    [exc |-> e, text |-> <<>>, posts |-> posts, sleeps |-> sleeps]

\* _get_fallback_feedback()
FALLBACK == "FALLBACK"

\* The exception an attempt ends with, once its handler re-raises it.
AttemptError(res) ==
    CASE res = "timeout" -> "Timeout"
      [] res = "connection" -> "ConnectionError"
      [] res = "s429" -> "HTTPError: Rate limited"
      [] res = "s500" -> "HTTPError: Server error"
      [] res = "s401" -> "HTTPError: Authentication failed"
      [] res = "s400" -> "HTTPError: Client Error"
      [] OTHER -> "ValueError"

\* The loop going round once more than max_retries allows.
RECURSIVE DeepseekLoop_one_more(_, _, _)
DeepseekLoop_one_more(results, attempt, sleeps) ==
    LET res == results[attempt + 1]
        posts == attempt + 1
        delay == IF res = "s429" THEN default_retry_after
                 ELSE base_delay * (2 ^ attempt)
    IN  IF res = "ok" THEN AiReturned(<<"AI">>, posts, sleeps)
        ELSE IF attempt < deepseek_max_retries
        THEN DeepseekLoop_one_more(results, attempt + 1, Append(sleeps, delay))
        ELSE AiRaised(AttemptError(res), posts, sleeps)

\* call_deepseek, lines 121-213: the loop from the given attempt on.
\* A 401 and the error of raise_for_status carry no truthy response, so the
\* HTTPError handler finds status None and retries them like the others.
RECURSIVE DeepseekLoop(_, _, _)
DeepseekLoop(results, attempt, sleeps) ==
    LET res == results[attempt + 1]
        posts == attempt + 1
        delay == IF res = "s429" THEN default_retry_after
                 ELSE base_delay * (2 ^ attempt)
    IN  IF res = "ok" THEN AiReturned(<<"AI">>, posts, sleeps)
        ELSE IF attempt < deepseek_max_retries - 1
        THEN DeepseekLoop(results, attempt + 1, Append(sleeps, delay))
        ELSE AiRaised(AttemptError(res), posts, sleeps)

\* call_deepseek(prompt)
call_deepseek(has_key, results) ==
    IF ~has_key THEN AiRaised("ValueError", 0, <<>>)
    ELSE DeepseekLoop(results, 0, <<>>)

\* generate_feedback, lines 242-260: the text chosen for an exception.
FallbackNote(e) ==
    CASE e = "HTTPError: Authentication failed" -> <<FALLBACK, "NOTE_AUTH">>
      [] e = "HTTPError: Rate limited" -> <<FALLBACK, "NOTE_RATE_LIMIT">>
      [] e \in {"HTTPError: Server error", "HTTPError: Client Error"} ->
            <<FALLBACK, "NOTE_API_ERROR">>
      [] e = "Timeout" -> <<FALLBACK, "NOTE_TIMEOUT">>
      [] e = "ConnectionError" -> <<FALLBACK, "NOTE_CONNECTION">>
      [] OTHER -> <<FALLBACK, "NOTE_UNEXPECTED">>

\* generate_feedback without the except clauses around call_deepseek.
generate_feedback_reraise(prompt_ok, has_key, results) ==
    IF ~prompt_ok THEN AiReturned(<<FALLBACK>>, 0, <<>>)
    ELSE IF ~has_key THEN AiReturned(<<FALLBACK>>, 0, <<>>)
    ELSE call_deepseek(has_key, results)

\* generate_feedback with the error message returned in place of the fallback.
generate_feedback_error_text(prompt_ok, has_key, results) ==
    IF ~prompt_ok THEN AiReturned(<<FALLBACK>>, 0, <<>>)
    ELSE IF ~has_key THEN AiReturned(<<FALLBACK>>, 0, <<>>)
    ELSE LET call == call_deepseek(has_key, results)
         IN  IF call.exc = "none" THEN call
             ELSE AiReturned(<<call.exc>>, call.posts, call.sleeps)

\* generate_feedback(survey_id): prompt_ok is whether _format_prompt returns.
generate_feedback(prompt_ok, has_key, results) ==
    IF ~prompt_ok THEN AiReturned(<<FALLBACK>>, 0, <<>>)
    ELSE IF ~has_key THEN AiReturned(<<FALLBACK>>, 0, <<>>)
    ELSE LET call == call_deepseek(has_key, results)
         IN  IF call.exc = "none" THEN call
             ELSE AiReturned(FallbackNote(call.exc), call.posts, call.sleeps)

\* save_survey_operation, lines 323-331: fb_overall.
FeedbackOverall(gen) ==
    IF gen.exc = "none" THEN gen.text ELSE <<"UNAVAILABLE">>

\* Feedback generation failed: the producer's own text was not obtained.
GenerationFails(prompt_ok, has_key, results) ==
    \/ ~prompt_ok
    \/ ~has_key
    \/ call_deepseek(has_key, results).exc # "none"

\* No call of a feedback function has been made yet.
AiIdle == [fn |-> "none", prompt_ok |-> TRUE, has_key |-> TRUE,
           results |-> <<>>, out |-> AiReturned(<<>>, 0, <<>>)]

(***************************************************************************)
(* pages_survey.py                                                         *)
(***************************************************************************)
max_retries == 3
MaxSubmits == 2
MaxFaults == 1
MaxPeriod == 2

SurveyRow(uid, role, period, z, r, c, b) ==
    [user_id |-> uid, role_level |-> role, period |-> period, zone_id |-> z,
     region_id |-> r, city_id |-> c, branch_id |-> b, overall_score |-> None]

RunIdle ==
    [pc |-> "idle", edit_mode |-> FALSE, existing_survey_id |-> 0,
     inputs |-> <<>>, sel |-> <<NULL, NULL, NULL, NULL>>, attempt |-> 0,
     survey_id |-> 0, reported |-> "none", step_failed |-> FALSE,
     gen_failed |-> FALSE]

\* render_survey, lines 74-82: the first survey of the user for the period.
ExistingSurveyId(uid, period) ==
    LET ids == {i \in 1..Len(surveys) :
                   surveys[i].user_id = uid /\ surveys[i].period = period}
    IN  IF ids = {} THEN 0 ELSE CHOOSE i \in ids : \A j \in ids : i <= j

\* render_survey, lines 118-179: the zone/region/city/branch the four
\* selectboxes can hold; the page returns early when a list is empty.
SurveySelections(sess) ==
    {l \in MAPPINGS :
        /\ (sess.user_role \in Levels /\ sess.user_zone_id # NULL)
              => l[1] = sess.user_zone_id
        /\ (sess.user_role \in {"Region", "City", "Branch"} /\ sess.user_region_id # NULL)
              => l[2] = sess.user_region_id
        /\ (sess.user_role \in {"City", "Branch"} /\ sess.user_city_id # NULL)
              => l[3] = sess.user_city_id
        /\ (sess.user_role = "Branch" /\ sess.user_branch_id # NULL)
              => l[4] = sess.user_branch_id}

\* The flattened question list of a level: the loop of lines 190-232.
RECURSIVE Flatten(_, _)
Flatten(cats, k) ==
    IF k > Len(cats) THEN <<>>
    ELSE [i \in 1..Len(cats[k].questions) |->
             [cat |-> k, weight |-> cats[k].questions[i].weight,
              formula |-> cats[k].questions[i].formula,
              target |-> cats[k].questions[i].target]]
         \o Flatten(cats, k + 1)

Questions(role) == Flatten(FRAMEWORK(role), 1)

\* Line 308 without the RAW_PERCENT branch.
QuestionScore_no_raw(meta, act) ==
    compute_question_score(act,
        IF meta.target # None THEN meta.target ELSE Some(0),
        meta.formula = "LIB")

\* save_survey_operation, lines 305-308: the score of one answered question.
QuestionScore(meta, act) ==
    IF meta.formula # "RAW_PERCENT"
    THEN compute_question_score(act,
             IF meta.target # None THEN meta.target ELSE Some(0),
             meta.formula = "LIB")
    ELSE Returned(Clamp(RInt(act)))

Answered(inputs) == {i \in 1..Len(inputs) : inputs[i] # None}

\* The increasing sequence of the members of a finite set of integers.
RECURSIVE SortedSeq(_)
SortedSeq(S) ==
    IF S = {} THEN <<>>
    ELSE LET m == CHOOSE x \in S : \A y \in S : x <= y
         IN  <<m>> \o SortedSeq(S \ {m})

\* save_survey_operation, lines 299-311: cat_scores, the dict keyed by
\* category name in the order a category first gets an answered question,
\* and line 314: its values re-keyed 1, 2, ... by enumerate.
CatScoresDict(qs, inputs) ==
    LET cats == SortedSeq({qs[i].cat : i \in Answered(inputs)})
        items(c) ==
            LET idx == SortedSeq({i \in Answered(inputs) : qs[i].cat = c})
            IN  [k \in 1..Len(idx) |->
                    <<QuestionScore(qs[idx[k]], inputs[idx[k]][1]).val,
                      qs[idx[k]].weight>>]
    IN  [k \in 1..Len(cats) |-> <<k, items(cats[k])>>]

\* per_cat.get(cat_idx, 0.0)
PerCatGet(per, cat_idx) ==
    IF \E p \in per : p[1] = cat_idx
    THEN (CHOOSE p \in per : p[1] = cat_idx)[2]
    ELSE RZero

ResponseRow(sid, qid, raw, score) ==
    [survey_id |-> sid, question_id |-> qid, raw_value |-> raw, score |-> score]
CategoryScoreRow(sid, cid, score) ==
    [survey_id |-> sid, category_id |-> cid, category_score |-> score]
FeedbackRow(sid, text) ==
    [survey_id |-> sid, level |-> "overall", feedback_text |-> text]

\* Line 260 with the delete leaving every row in place.
DeleteResponses_none(rows, sid) == rows

\* Line 260: db.query(Response).filter(Response.survey_id == survey.id).delete()
DeleteResponses(rows, sid) == {r \in rows : r.survey_id # sid}

\* Line 261: the same for CategoryScore.
DeleteCategoryScores(rows, sid) == {c \in rows : c.survey_id # sid}

\* The statements of the first transaction that can fail on their own.
EditFaults == {"none", "del_response", "del_category_score", "del_ai_feedback", "commit"}
NewFaults == {"none", "flush", "commit"}
AllFaults == EditFaults \cup NewFaults

\* save_survey_operation, lines 249-321: the first transaction, run with the
\* given failing statement.  result is "ok" (committed), "abort" (the early
\* return of four Nones, committed with nothing written) or "raise"
\* (rolled back by get_session).
save_tx1(fault) ==
    LET role == session.user_role
        qs == Questions(role)
        cats == FRAMEWORK(role)
        sid == IF run.edit_mode THEN run.existing_survey_id ELSE Len(surveys) + 1
        zone_id == IF role \in Levels THEN session.user_zone_id ELSE run.sel[1]
        region_id == IF role \in {"Region", "City", "Branch"}
                     THEN session.user_region_id ELSE run.sel[2]
        city_id == IF role \in {"City", "Branch"}
                   THEN session.user_city_id ELSE run.sel[3]
        branch_id == IF role = "Branch" THEN session.user_branch_id ELSE run.sel[4]
        abort ==
            IF run.edit_mode
            THEN sid \notin 1..Len(surveys)
            ELSE \/ role \in Levels /\ zone_id = NULL
                 \/ role \in {"Region", "City", "Branch"} /\ region_id = NULL
                 \/ role \in {"City", "Branch"} /\ city_id = NULL
                 \/ role = "Branch" /\ branch_id = NULL
        delR == run.edit_mode /\ fault # "del_response"
        delC == delR /\ fault # "del_category_score"
        delF == delC /\ fault # "del_ai_feedback"
        swallowed == run.edit_mode /\ ~delF
        resp1 == IF delR THEN DeleteResponses(responses, sid) ELSE responses
        cat1 == IF delC THEN DeleteCategoryScores(category_scores, sid)
                ELSE category_scores
        fb1 == IF delF THEN SelectSeq(ai_feedback, LAMBDA f : f.survey_id # sid)
               ELSE ai_feedback
        surveys1 == IF run.edit_mode THEN surveys
                    ELSE Append(surveys, SurveyRow(session.user_id, role, today,
                                    zone_id, region_id, city_id, branch_id))
        scoring_raises ==
            \E i \in Answered(run.inputs) :
                QuestionScore(qs[i], run.inputs[i][1]).exc # "none"
        agg == compute_survey_scores(CatScoresDict(qs, run.inputs))
        newR == {ResponseRow(sid, i, run.inputs[i][1],
                     QuestionScore(qs[i], run.inputs[i][1]).val) :
                     i \in Answered(run.inputs)}
        newC == {CategoryScoreRow(sid, k, PerCatGet(agg.per_category, k)) :
                     k \in 1..Len(cats)}
        integrity ==
            /\ \A n \in newR : \A o \in resp1 :
                  ~(o.survey_id = n.survey_id /\ o.question_id = n.question_id)
            /\ \A n \in newC : \A o \in cat1 :
                  ~(o.survey_id = n.survey_id /\ o.category_id = n.category_id)
        unchanged(res, failed) ==
            [result |-> res, failed |-> failed, survey_id |-> 0,
             surveys |-> surveys, responses |-> responses,
             category_scores |-> category_scores, ai_feedback |-> ai_feedback]
    IN  IF abort THEN unchanged("abort", FALSE)
        ELSE IF \/ ~run.edit_mode /\ fault = "flush"
                \/ scoring_raises
                \/ agg.exc # "none"
                \/ fault = "commit"
                \/ ~integrity
        THEN unchanged("raise", TRUE)
        ELSE [result |-> "ok", failed |-> swallowed, survey_id |-> sid,
              surveys |-> [surveys1 EXCEPT ![sid].overall_score = Some(agg.overall)],
              responses |-> resp1 \cup newR,
              category_scores |-> cat1 \cup newC,
              ai_feedback |-> fb1]

\* render_survey, lines 345-359: what the page reports after the run.
Success == IF run.edit_mode THEN "updated" ELSE "submitted"

\* _retry_db_operation: an exception in attempt k is retried while
\* k < max_retries - 1, else re-raised and reported as a failure.
AfterException(failed) ==
    IF run.attempt < max_retries - 1
    THEN [run EXCEPT !.pc = "tx1", !.attempt = run.attempt + 1,
                     !.step_failed = failed]
    ELSE [RunIdle EXCEPT !.reported = "failed", !.step_failed = failed]

Login(ids) ==
    /\ run.pc = "idle"
    /\ \E id \in ids \cap UserIds : session' = login_user(id)
    /\ UNCHANGED <<calc, ai, user_vars, today, survey_vars>>

Tick ==
    /\ run.pc = "idle"
    /\ today < MaxPeriod
    /\ today' = today + 1
    /\ UNCHANGED <<calc, ai, user_vars, session, survey_vars>>

\* render_survey up to the form's submit button.
SubmitSurvey(input_set, max_submits) ==
    /\ run.pc = "idle"
    /\ submits < max_submits
    /\ session.user_id # 0
    /\ FRAMEWORK(session.user_role) # <<>>
    /\ \E inputs \in input_set, edit_box \in BOOLEAN, sel \in SurveySelections(session) :
          LET ex == ExistingSurveyId(session.user_id, today)
          IN  /\ Len(inputs) = Len(Questions(session.user_role))
              /\ run' = [RunIdle EXCEPT !.pc = "tx1",
                                        !.edit_mode = (ex # 0 /\ edit_box),
                                        !.existing_survey_id = ex,
                                        !.inputs = inputs, !.sel = sel]
    /\ submits' = submits + 1
    /\ UNCHANGED <<calc, ai, user_vars, session, today, db_vars, faults>>

\* One attempt of the first transaction of save_survey_operation.
Tx1(fault_set, max_faults) ==
    /\ run.pc = "tx1"
    /\ \E fault \in (IF run.edit_mode THEN EditFaults ELSE NewFaults) \cap fault_set :
          LET res == save_tx1(fault)
          IN  /\ fault # "none" => faults < max_faults
              /\ faults' = IF fault = "none" THEN faults ELSE faults + 1
              /\ surveys' = res.surveys
              /\ responses' = res.responses
              /\ category_scores' = res.category_scores
              /\ ai_feedback' = res.ai_feedback
              /\ run' = CASE res.result = "ok" ->
                                [run EXCEPT !.pc = "tx2", !.survey_id = res.survey_id,
                                            !.step_failed = res.failed]
                          [] res.result = "abort" ->
                                [RunIdle EXCEPT !.reported = Success]
                          [] OTHER -> AfterException(TRUE)
    /\ UNCHANGED <<calc, ai, user_vars, session, today, submits>>

\* generate_feedback and the second transaction of save_survey_operation,
\* lines 323-342; cases are the ways the feedback call can go.
FeedbackTx2(fault_set, cases, max_faults) ==
    /\ run.pc = "tx2"
    /\ \E g \in cases, fault \in {"none", "commit"} \cap fault_set :
          LET gen == generate_feedback(g.prompt_ok, g.has_key, g.results)
              fb_overall == FeedbackOverall(gen)
              gen_failed == GenerationFails(g.prompt_ok, g.has_key, g.results)
          IN  /\ fault # "none" => faults < max_faults
              /\ faults' = IF fault = "none" THEN faults ELSE faults + 1
              /\ IF fault = "none"
                 THEN /\ ai_feedback' = Append(ai_feedback,
                                            FeedbackRow(run.survey_id, fb_overall))
                      /\ run' = [RunIdle EXCEPT !.reported = Success,
                                                !.gen_failed = gen_failed]
                 ELSE /\ ai_feedback' = ai_feedback
                      /\ run' = [AfterException(run.step_failed)
                                    EXCEPT !.gen_failed = gen_failed]
    /\ UNCHANGED <<calc, ai, user_vars, session, today, surveys, responses,
                   category_scores, submits>>

(***************************************************************************)
(* pages_admin.py                                                          *)
(***************************************************************************)
MaxAdminOps == 2

ROLE_ORDER(role) ==
    CASE role = "Admin" -> 0 [] role = "Zone" -> 1 [] role = "Region" -> 2
      [] role = "City" -> 3 [] role = "Branch" -> 4 [] OTHER -> 99

\* _allowed_child_roles with the caller's own role among the answers.
_allowed_child_roles_with_peer(current_role) ==
    CASE current_role = "Admin" -> {"Admin", "Zone", "Region", "City", "Branch"}
      [] current_role = "Zone" -> {"Zone", "Region", "City", "Branch"}
      [] current_role = "Region" -> {"Region", "City", "Branch"}
      [] current_role = "City" -> {"City", "Branch"}
      [] OTHER -> {}

_allowed_child_roles(current_role) ==
    CASE current_role = "Admin" -> {"Admin", "Zone", "Region", "City", "Branch"}
      [] current_role = "Zone" -> {"Region", "City", "Branch"}
      [] current_role = "Region" -> {"City", "Branch"}
      [] current_role = "City" -> {"Branch"}
      [] OTHER -> {}

_within_jurisdiction(u, current_role, cz, cr, cc) ==
    CASE current_role = "Admin" -> TRUE
      [] current_role = "Zone" -> u.zone_id = cz
      [] current_role = "Region" -> u.zone_id = cz /\ u.region_id = cr
      [] current_role = "City" ->
            u.zone_id = cz /\ u.region_id = cr /\ u.city_id = cc
      [] OTHER -> FALSE

SUPERADMIN == "C32722"

\* isinstance(x, str) and x not in (None, "-"): a real selection.
Chosen(x) == x # NULL /\ x # DASH

\* The options of a selectbox; an empty list shows the placeholder.
OrDash(opts) == IF opts = {} THEN {DASH} ELSE opts

\* render_admin, lines 62-108: the (zone, region, city, branch) the widgets
\* of the Create / Update User form can hold for the chosen role.
FormSelections(sess, role) ==
    LET cur == sess.user_role
        scoped_zones == IF cur = "Admin" THEN get_zones
                        ELSE IF sess.user_zone_id # NULL THEN {sess.user_zone_id} ELSE {}
        zone_opts == IF role = "Admin" THEN {DASH}
                     ELSE IF scoped_zones = {} THEN {NULL} ELSE scoped_zones
        region_opts(z) ==
            LET all == IF Chosen(z) THEN get_regions(z) ELSE {}
                scoped == IF cur \in {"Admin", "Zone"} THEN all
                          ELSE IF sess.user_region_id # NULL
                               THEN {sess.user_region_id} ELSE {}
            IN  IF role \in {"Admin", "Zone"} THEN {DASH} ELSE OrDash(scoped)
        city_opts(z, r) ==
            LET all == IF Chosen(r) THEN get_cities(z, r) ELSE {}
                scoped == IF cur \in {"Admin", "Zone", "Region"} THEN all
                          ELSE IF sess.user_city_id # NULL
                               THEN {sess.user_city_id} ELSE {}
            IN  IF role \in {"Admin", "Zone", "Region"} THEN {DASH} ELSE OrDash(scoped)
        branch_opts(z, r, c) ==
            LET all == IF Chosen(c) THEN get_branches(z, r, c) ELSE {}
            IN  IF role \in {"Admin", "Zone", "Region", "City"} THEN {DASH}
                ELSE OrDash(all)
    IN  UNION {UNION {UNION {{<<z, r, c, b>> : b \in branch_opts(z, r, c)} :
            c \in city_opts(z, r)} : r \in region_opts(z)} : z \in zone_opts}

\* render_admin, lines 238-275: the same for the widgets of one listed user.
SaveSelections(sess, new_role) ==
    LET cur == sess.user_role
        zones_opts == IF cur = "Admin" THEN get_zones ELSE {sess.user_zone_id}
        zone_opts == IF new_role = "Admin" THEN {DASH} ELSE zones_opts
        region_opts(z) ==
            LET all == IF Chosen(z) THEN get_regions(z) ELSE {}
                opts == IF cur = "Region" THEN {sess.user_region_id} ELSE all
            IN  IF new_role \in {"Admin", "Zone"} THEN {DASH} ELSE OrDash(opts)
        city_opts(z, r) ==
            LET all == IF Chosen(r) THEN get_cities(z, r) ELSE {}
                opts == IF cur = "City" THEN {sess.user_city_id} ELSE all
            IN  IF new_role \in {"Admin", "Zone", "Region"} THEN {DASH} ELSE OrDash(opts)
        branch_opts(z, r, c) ==
            LET all == IF Chosen(c) THEN get_branches(z, r, c) ELSE {}
            IN  IF new_role \in {"Admin", "Zone", "Region", "City"} THEN {DASH}
                ELSE OrDash(all)
    IN  UNION {UNION {UNION {{<<z, r, c, b>> : b \in branch_opts(z, r, c)} :
            c \in city_opts(z, r)} : r \in region_opts(z)} : z \in zone_opts}

\* Lines 155-158 and 301-304: the chain stored for a role.
StoredChain(role, g) ==
    << IF role = "Admin" THEN NULL ELSE g[1],
       IF role \in {"Admin", "Zone"} THEN NULL ELSE g[2],
       IF role \in {"Admin", "Zone", "Region"} THEN NULL ELSE g[3],
       IF role \in {"Admin", "Zone", "Region", "City"} THEN NULL ELSE g[4] >>

AdminCount == Cardinality({i \in UserIds : users[i].role = "Admin"})

UserIdOf(emp) ==
    LET ids == {i \in UserIds : users[i].employee_id = emp}
    IN  IF ids = {} THEN 0 ELSE CHOOSE i \in ids : TRUE

\* render_admin, lines 183-196: the users listed under User Management.
ListedUsers(sess) ==
    IF sess.user_id \in UserIds /\ users[sess.user_id].employee_id = SUPERADMIN
    THEN UserIds
    ELSE {i \in UserIds :
            /\ ROLE_ORDER(users[i].role) > ROLE_ORDER(sess.user_role)
            /\ _within_jurisdiction(users[i], sess.user_role, sess.user_zone_id,
                                    sess.user_region_id, sess.user_city_id)}

\* render_admin, lines 49-52: only Admin / Zone / Region / City get the page.
AdminPage(max_ops) ==
    /\ run.pc = "idle"
    /\ admin_ops < max_ops
    /\ session.user_role \in {"Admin", "Zone", "Region", "City"}

\* The Create / Update User form, lines 111-160 (name and password are not
\* modelled; both are required to be non-empty or defaulted).
CreateUpdateUser(emp_ids, max_ops) ==
    /\ AdminPage(max_ops)
    /\ \E emp_id \in emp_ids, role \in _allowed_child_roles(session.user_role) :
        \E g \in FormSelections(session, role) :
          LET existing == UserIdOf(emp_id)
              chain == StoredChain(role, g)
              row == UserRow(emp_id, role, chain[1], chain[2], chain[3], chain[4])
              invalid ==
                  \/ role \in Levels /\ g[1] = NULL
                  \/ role \in {"Region", "City", "Branch"} /\ ~Chosen(g[2])
                  \/ role \in {"City", "Branch"} /\ ~Chosen(g[3])
                  \/ role = "Branch" /\ ~Chosen(g[4])
              elevating ==
                  /\ existing # 0
                  /\ ROLE_ORDER(role) < ROLE_ORDER(session.user_role)
                  /\ session.user_role # "Admin"
          IN  IF invalid
              THEN /\ users' = users
                   /\ admin_msg' = "select_geography"
              ELSE IF elevating
              THEN /\ users' = users
                   /\ admin_msg' = "higher_or_equal_role"
              ELSE /\ users' = IF existing = 0 THEN Append(users, row)
                               ELSE [users EXCEPT ![existing] = row]
                   /\ admin_msg' = "created_updated"
    /\ admin_ops' = admin_ops + 1
    /\ UNCHANGED <<calc, ai, session, today, survey_vars>>

\* Save with the fields written before the last-Admin test, and kept.
SaveUser_write_first(max_ops) ==
    /\ AdminPage(max_ops)
    /\ \E id \in ListedUsers(session),
          new_role \in (IF session.user_role # "Admin"
                        THEN _allowed_child_roles(session.user_role) ELSE Roles) :
        \E g \in SaveSelections(session, new_role) :
          LET u == users[id]
              chain == StoredChain(new_role, g)
              row == UserRow(u.employee_id, new_role, chain[1], chain[2], chain[3], chain[4])
          IN  IF u.employee_id = SUPERADMIN
              THEN /\ users' = users
                   /\ admin_msg' = "superadmin_immutable"
              ELSE IF ROLE_ORDER(new_role) < ROLE_ORDER(session.user_role)
                      /\ session.user_role # "Admin"
              THEN /\ users' = users
                   /\ admin_msg' = "higher_or_equal_role"
              ELSE IF u.role = "Admin" /\ new_role # "Admin" /\ AdminCount <= 1
              THEN /\ users' = [users EXCEPT ![id] = row]
                   /\ admin_msg' = "last_admin"
              ELSE /\ users' = [users EXCEPT ![id] = row]
                   /\ admin_msg' = "updated"
    /\ admin_ops' = admin_ops + 1
    /\ UNCHANGED <<calc, ai, session, today, survey_vars>>

\* The Save button of a listed user, lines 280-312.
SaveUser(max_ops) ==
    /\ AdminPage(max_ops)
    /\ \E id \in ListedUsers(session),
          new_role \in (IF session.user_role # "Admin"
                        THEN _allowed_child_roles(session.user_role) ELSE Roles) :
        \E g \in SaveSelections(session, new_role) :
          LET u == users[id]
              chain == StoredChain(new_role, g)
              row == UserRow(u.employee_id, new_role, chain[1], chain[2], chain[3], chain[4])
          IN  IF u.employee_id = SUPERADMIN
              THEN /\ users' = users
                   /\ admin_msg' = "superadmin_immutable"
              ELSE IF ROLE_ORDER(new_role) < ROLE_ORDER(session.user_role)
                      /\ session.user_role # "Admin"
              THEN /\ users' = users
                   /\ admin_msg' = "higher_or_equal_role"
              ELSE IF u.role = "Admin" /\ new_role # "Admin" /\ AdminCount <= 1
              THEN /\ users' = users
                   /\ admin_msg' = "last_admin"
              ELSE /\ users' = [users EXCEPT ![id] = row]
                   /\ admin_msg' = "updated"
    /\ admin_ops' = admin_ops + 1
    /\ UNCHANGED <<calc, ai, session, today, survey_vars>>

\* The Delete button of a listed user, lines 321-345.
DeleteUser(max_ops) ==
    /\ AdminPage(max_ops)
    /\ \E id \in ListedUsers(session) :
          LET u == users[id]
          IN  IF u.employee_id = SUPERADMIN
              THEN /\ users' = users
                   /\ admin_msg' = "superadmin_immutable"
              ELSE IF id = session.user_id
              THEN /\ users' = users
                   /\ admin_msg' = "delete_self"
              ELSE IF u.role = "Admin" /\ AdminCount <= 1
              THEN /\ users' = users
                   /\ admin_msg' = "last_admin"
              ELSE /\ users' = [users EXCEPT ![id] = DeletedRow]
                   /\ admin_msg' = "deleted"
    /\ admin_ops' = admin_ops + 1
    /\ UNCHANGED <<calc, ai, session, today, survey_vars>>


(***************************************************************************)
(* pages_dashboard.py, pages_saved_surveys.py, pages_tasks.py: the survey  *)
(* listings.  A query is the predicate its filter puts on a Survey row s;  *)
(* a comparison with None is IS NULL.                                      *)
(***************************************************************************)
\* Python truth of an optional string.
Truthy(x) == x # NULL

\* pages_dashboard._scoped_query
dashboard_scoped_query(s, user_id, role, z, r, c, b, include_subordinates) ==
    IF ~include_subordinates THEN s.user_id = user_id
    ELSE IF role \in {"Admin", NULL}
    THEN IF Truthy(b)
         THEN s.zone_id = z /\ s.region_id = r /\ s.city_id = c /\ s.branch_id = b
         ELSE IF Truthy(c)
         THEN s.zone_id = z /\ s.region_id = r /\ s.city_id = c
         ELSE IF Truthy(r) THEN s.zone_id = z /\ s.region_id = r
         ELSE IF Truthy(z) THEN s.zone_id = z
         ELSE TRUE
    ELSE IF role = "Zone"
    THEN \/ s.user_id = user_id
         \/ /\ s.zone_id = z
            /\ s.role_level \in {"Region", "City", "Branch"}
            /\ Truthy(r) => s.region_id = r
            /\ Truthy(c) => s.city_id = c
            /\ Truthy(b) => s.branch_id = b
    ELSE IF role = "Region"
    THEN \/ s.user_id = user_id
         \/ /\ s.zone_id = z
            /\ s.region_id = r
            /\ s.role_level \in {"City", "Branch"}
            /\ Truthy(c) => s.city_id = c
            /\ Truthy(b) => s.branch_id = b
    ELSE IF role = "City"
    THEN \/ s.user_id = user_id
         \/ /\ s.zone_id = z
            /\ s.region_id = r
            /\ s.city_id = c
            /\ s.role_level = "Branch"
            /\ Truthy(b) => s.branch_id = b
    ELSE s.user_id = user_id

\* render_dashboard, lines 106-148: what the four geography selectboxes of
\* the team view can hold.
DashboardSelections(sess) ==
    LET role == sess.user_role
        zone_opts == OrDash(IF role = "Admin" THEN get_zones
                            ELSE IF Truthy(sess.user_zone_id)
                                 THEN {sess.user_zone_id} ELSE {})
        region_opts(z) ==
            LET all == IF Chosen(z) THEN get_regions(z) ELSE {}
            IN  OrDash(IF role \in {"Admin", "Zone"} THEN all
                       ELSE IF Truthy(sess.user_region_id)
                            THEN {sess.user_region_id} ELSE {})
        city_opts(z, r) ==
            LET all == IF Chosen(r) THEN get_cities(z, r) ELSE {}
            IN  OrDash(IF role \in {"Admin", "Zone", "Region"} THEN all
                       ELSE IF Truthy(sess.user_city_id)
                            THEN {sess.user_city_id} ELSE {})
        branch_opts(z, r, c) ==
            OrDash(IF Chosen(c) THEN get_branches(z, r, c) ELSE {})
    IN  UNION {UNION {UNION {{<<z, r, c, b>> : b \in branch_opts(z, r, c)} :
            c \in city_opts(z, r)} : r \in region_opts(z)} : z \in zone_opts}

\* render_dashboard, lines 151-174: the team members offered for selection.
AvailableUsers(sess, sel) ==
    {i \in UserIds :
        /\ users[i].role \in _allowed_child_roles(sess.user_role)
        /\ i # sess.user_id
        /\ IF Chosen(sel[4])
           THEN /\ users[i].zone_id = sel[1] /\ users[i].region_id = sel[2]
                /\ users[i].city_id = sel[3] /\ users[i].branch_id = sel[4]
           ELSE IF Chosen(sel[3])
           THEN /\ users[i].zone_id = sel[1] /\ users[i].region_id = sel[2]
                /\ users[i].city_id = sel[3]
           ELSE IF Chosen(sel[2])
           THEN users[i].zone_id = sel[1] /\ users[i].region_id = sel[2]
           ELSE IF Chosen(sel[1]) THEN users[i].zone_id = sel[1]
           ELSE TRUE}

\* The choices a viewer has on the dashboard: the team checkbox, the four
\* geography selections and the employee (0 is "all users").
DashboardChoices(sess) ==
    {[team |-> FALSE,
      sel |-> <<sess.user_zone_id, sess.user_region_id, sess.user_city_id,
                sess.user_branch_id>>,
      employee |-> 0]}
    \cup
    (IF sess.user_role = "Branch" THEN {}
     ELSE UNION {{[team |-> TRUE, sel |-> g, employee |-> e] :
                     e \in {0} \cup AvailableUsers(sess, g)} :
                 g \in DashboardSelections(sess)})

\* render_dashboard, lines 189-203 and 234-241: the survey query.
DashboardQuery(sess, choice, s) ==
    LET show_team_surveys ==
            choice.team /\ AvailableUsers(sess, choice.sel) # {}
    IN  /\ dashboard_scoped_query(s, sess.user_id, sess.user_role,
               choice.sel[1], choice.sel[2], choice.sel[3], choice.sel[4],
               show_team_surveys)
        /\ IF show_team_surveys /\ choice.employee # 0
           THEN s.user_id = choice.employee
           ELSE (sess.user_role = "Admin" /\ ~show_team_surveys)
                    => s.user_id = sess.user_id

\* render_saved_surveys, lines 27-53
SavedSurveysQuery(sess, s) ==
    IF sess.user_role = "Zone"
    THEN \/ s.user_id = sess.user_id
         \/ /\ s.zone_id = sess.user_zone_id
            /\ s.role_level \in {"Region", "City", "Branch"}
    ELSE IF sess.user_role = "Region"
    THEN \/ s.user_id = sess.user_id
         \/ /\ s.zone_id = sess.user_zone_id
            /\ s.region_id = sess.user_region_id
            /\ s.role_level \in {"City", "Branch"}
    ELSE IF sess.user_role = "City"
    THEN \/ s.user_id = sess.user_id
         \/ /\ s.zone_id = sess.user_zone_id
            /\ s.region_id = sess.user_region_id
            /\ s.city_id = sess.user_city_id
            /\ s.role_level = "Branch"
    ELSE s.user_id = sess.user_id

\* pages_tasks._scoped_query with the region comparison of a Region viewer
\* left out.
tasks_scoped_query_no_region(s, role, z, r, c, b) ==
    IF role = "Admin" \/ role = NULL THEN TRUE
    ELSE IF role = "Zone" THEN s.zone_id = z
    ELSE IF role = "Region" THEN s.zone_id = z
    ELSE IF role = "City" THEN s.zone_id = z /\ s.region_id = r /\ s.city_id = c
    ELSE s.zone_id = z /\ s.region_id = r /\ s.city_id = c /\ s.branch_id = b

\* pages_tasks._scoped_query
tasks_scoped_query(s, role, z, r, c, b) ==
    IF role = "Admin" \/ role = NULL THEN TRUE
    ELSE IF role = "Zone" THEN s.zone_id = z
    ELSE IF role = "Region" THEN s.zone_id = z /\ s.region_id = r
    ELSE IF role = "City" THEN s.zone_id = z /\ s.region_id = r /\ s.city_id = c
    ELSE s.zone_id = z /\ s.region_id = r /\ s.city_id = c /\ s.branch_id = b

\* render_tasks, lines 22-31
TasksQuery(sess, s) ==
    tasks_scoped_query(s, sess.user_role, sess.user_zone_id, sess.user_region_id,
                       sess.user_city_id, sess.user_branch_id)

\* The length of the sequence of HTTP results offered to one feedback call.
MaxHttpResults == 4

FeedbackCase(prompt_ok, has_key, results) ==
    [prompt_ok |-> prompt_ok, has_key |-> has_key, results |-> results]

\* Every result repeated on all attempts, and a success after two failures.
SameResults(res) == [i \in 1..MaxHttpResults |-> res]
RecoverResults == [i \in 1..MaxHttpResults |-> IF i = 1 THEN "timeout"
                                               ELSE IF i = 2 THEN "s500" ELSE "ok"]
FeedbackCases ==
    {FeedbackCase(TRUE, TRUE, SameResults(res)) : res \in HttpResults}
    \cup {FeedbackCase(TRUE, TRUE, RecoverResults),
          FeedbackCase(FALSE, TRUE, SameResults("ok")),
          FeedbackCase(TRUE, FALSE, SameResults("ok"))}
TwoFeedbackCases ==
    {FeedbackCase(TRUE, TRUE, SameResults("ok")),
     FeedbackCase(TRUE, TRUE, SameResults("timeout"))}

InputVectors ==
    { <<None, None, None>>,
      <<None, None, Some(50)>>,
      <<Some(80), Some(48), None>>,
      <<Some(80), Some(0), Some(50)>>,
      <<Some(150), Some(12), Some(-10)>> }

SurveyLogins == {2, 5}

InitApp ==
    /\ calc = CalcIdle
    /\ ai = AiIdle
    /\ users = BootstrapUsers
    /\ session = NoSession
    /\ today = 1
    /\ surveys = <<>>
    /\ responses = {}
    /\ category_scores = {}
    /\ ai_feedback = <<>>
    /\ run = RunIdle
    /\ submits = 0
    /\ faults = 0
    /\ admin_ops = 0
    /\ admin_msg = "none"

NextSurvey ==
    \/ Login(SurveyLogins)
    \/ Tick
    \/ SubmitSurvey(InputVectors, MaxSubmits)
    \/ Tx1(AllFaults, MaxFaults)
    \/ FeedbackTx2(AllFaults, TwoFeedbackCases, MaxFaults)
SpecSurvey == InitApp /\ [][NextSurvey]_vars

NextUsers ==
    \/ Login(1..6)
    \/ CreateUpdateUser({"admin", "zone1", "region1", "city1", "branch1",
                         "C32722", "new1"}, MaxAdminOps)
    \/ SaveUser(MaxAdminOps)
    \/ DeleteUser(MaxAdminOps)
SpecUsers == InitApp /\ [][NextUsers]_vars

\* The session still describes the row of the logged-in user.
SessionCurrent ==
    /\ session.user_id \in UserIds
    /\ session = login_user(session.user_id)

\* C4: after any sequence of user-management operations at least one user
\* with role Admin exists.
C4_AnAdminAlwaysExists ==
    \E i \in UserIds : users[i].role = "Admin"

\* C15: a user row created or updated while the actor's session role is not
\* Admin gets a role strictly below that role.
C15_AssignedRoleStrictlyBelow ==
    [][session.user_role # "Admin" =>
        \A i \in 1..Len(users') :
            ((i > Len(users) \/ users'[i] # users[i]) /\ users'[i] # DeletedRow)
                => ROLE_ORDER(users'[i].role) > ROLE_ORDER(session.user_role)]_vars

\* A Zone, Region or City manager has just created or updated a user.
C15_Witness ==
    /\ session.user_role \in {"Zone", "Region", "City"}
    /\ admin_msg \in {"created_updated", "updated"}
    /\ \E i \in UserIds : i > Len(BootstrapUsers)

\* What the Admin page reports when it rejects a submission.
RejectMessages ==
    {"select_geography", "higher_or_equal_role", "superadmin_immutable",
     "last_admin", "delete_self"}

\* C16: a user-management submission that is rejected changes no field of
\* any User row and deletes no row.
C16_RejectedChangesNothing ==
    [][(admin_ops' = admin_ops + 1 /\ admin_msg' \in RejectMessages)
          => users' = users]_vars

\* The demotion or deletion of the last Admin has just been rejected.
C16_Witness ==
    /\ admin_ops > 0
    /\ admin_msg = "last_admin"
    /\ AdminCount = 1

\* C5: every User row changed while a Zone, Region or City manager is the
\* actor was, if it existed before, strictly below the actor's role and
\* inside the actor's jurisdiction, and is inside it after the operation.
C5_ManagerChangesOnlyOwnSubtree ==
    [][(SessionCurrent /\ session.user_role \in {"Zone", "Region", "City"}) =>
        \A i \in 1..Len(users') :
            (i > Len(users) \/ users'[i] # users[i]) =>
                /\ (i <= Len(users) /\ users[i] # DeletedRow) =>
                      /\ ROLE_ORDER(users[i].role) > ROLE_ORDER(session.user_role)
                      /\ _within_jurisdiction(users[i], session.user_role,
                             session.user_zone_id, session.user_region_id,
                             session.user_city_id)
                /\ users'[i] # DeletedRow =>
                      _within_jurisdiction(users'[i], session.user_role,
                             session.user_zone_id, session.user_region_id,
                             session.user_city_id)]_vars

\* The listings after surveys were submitted and users were created or
\* moved: no database statement fails.
MaxViewSubmits == 1
MaxViewOps == 1
NextView ==
    \/ Login(1..7)
    \/ SubmitSurvey({<<Some(80), Some(48), None>>}, MaxViewSubmits)
    \/ Tx1({"none"}, MaxFaults)
    \/ FeedbackTx2({"none"}, {FeedbackCase(TRUE, FALSE, SameResults("ok"))}, MaxFaults)
    \/ CreateUpdateUser({"branch1", "new1"}, MaxViewOps)
SpecView == InitApp /\ [][NextView]_vars

\* The survey rows a viewer can be shown by some listing, for some choice of
\* the dashboard widgets.
Viewer == session.user_id # 0
InDashboard(s) == \E ch \in DashboardChoices(session) : DashboardQuery(session, ch, s)
InSavedSurveys(s) == SavedSurveysQuery(session, s)
InTasks(s) == TasksQuery(session, s)
Listed(s) == InDashboard(s) \/ InSavedSurveys(s) \/ InTasks(s)
SurveyRows == {surveys[i] : i \in 1..Len(surveys)}

\* C6: a non-Admin viewer is listed a survey of another user only if its
\* role level is strictly below the viewer's role.
C6_OthersOnlyStrictlyBelow ==
    (Viewer /\ session.user_role \in Levels) =>
        \A s \in SurveyRows :
            (s.user_id # session.user_id /\ Listed(s)) =>
                ROLE_ORDER(s.role_level) > ROLE_ORDER(session.user_role)

\* The survey lies in the containment chain of the viewer.
InChain(sess, s) ==
    /\ sess.user_role \in {"Zone", "Region", "City"} => s.zone_id = sess.user_zone_id
    /\ sess.user_role \in {"Region", "City"} => s.region_id = sess.user_region_id
    /\ sess.user_role = "City" => s.city_id = sess.user_city_id

\* C7: a non-Admin viewer is listed a survey of another user only if it
\* lies in the viewer's containment chain, whatever geography filter is
\* chosen on the dashboard.
C7_OthersOnlyInChain ==
    (Viewer /\ session.user_role \in Levels) =>
        \A s \in SurveyRows :
            (s.user_id # session.user_id /\ Listed(s)) => InChain(session, s)

\* A Zone, Region or City viewer is listed a survey of another user by the
\* dashboard, by the saved surveys and by the tasks page.
C7_Witness ==
    /\ Viewer
    /\ session.user_role \in {"Zone", "Region", "City"}
    /\ \E s \in SurveyRows :
          /\ s.user_id # session.user_id
          /\ InSavedSurveys(s)
          /\ InTasks(s)
          /\ \E ch \in DashboardChoices(session) :
                ch.team /\ Chosen(ch.sel[4]) /\ DashboardQuery(session, ch, s)

\* C8: every listing (dashboard own view, dashboard team view of all users
\* with any geography filter, saved surveys, tasks) shows a viewer their own
\* surveys, also after their role or geography was changed.
C8_OwnSurveysAlwaysListed ==
    (Viewer /\ SessionCurrent) =>
        \A s \in SurveyRows :
            s.user_id = session.user_id =>
                /\ \A ch \in DashboardChoices(session) :
                      ch.employee = 0 => DashboardQuery(session, ch, s)
                /\ InSavedSurveys(s)
                /\ InTasks(s)

\* C17: every stored User and Survey populates exactly the chain segments
\* of its role level: Zone only zone_id, Region zone_id and region_id, City
\* also city_id, Branch all four, an Admin user none.
C17_ChainMatchesRoleLevel ==
    LET depth(role) == IF role \in Levels THEN ROLE_ORDER(role) ELSE 0
        exact(role, row) ==
            LET chain == <<row.zone_id, row.region_id, row.city_id, row.branch_id>>
            IN  \A k \in 1..4 : (chain[k] # NULL) <=> (k <= depth(role))
    IN  /\ \A i \in 1..Len(users) :
              users[i].role \in Levels \cup {"Admin"} => exact(users[i].role, users[i])
        /\ \A s \in SurveyRows :
              s.role_level \in Levels => exact(s.role_level, s)

\* C18: an Admin viewer is unrestricted: the dashboard (for some choice of
\* its widgets), the saved surveys and the tasks page each list every stored
\* survey, whatever its chain and whoever its author.
C18_AdminSeesEverySurvey ==
    (Viewer /\ session.user_role = "Admin") =>
        \A s \in SurveyRows :
            InDashboard(s) /\ InSavedSurveys(s) /\ InTasks(s)

\* One user submitting and editing the survey of one period, with failing
\* database statements.
EditLogins == {5}
MaxEditSubmits == 2
MaxEditFaults == 1
NextEdit ==
    \/ Login(EditLogins)
    \/ SubmitSurvey(InputVectors, MaxEditSubmits)
    \/ Tx1(AllFaults, MaxEditFaults)
    \/ FeedbackTx2(AllFaults, TwoFeedbackCases, MaxEditFaults)
SpecEdit == InitApp /\ [][NextEdit]_vars

\* C11: once the first transaction of an edit has committed, the survey's
\* Response rows are exactly one per answered question of the new input, and
\* its CategoryScore rows and overall_score are those of the new input; no
\* row of an earlier submission is left.
C11_EditReplacesRows ==
    (run.pc = "tx2" /\ run.edit_mode) =>
        LET sid == run.survey_id
            qs == Questions(session.user_role)
            agg == compute_survey_scores(CatScoresDict(qs, run.inputs))
        IN  /\ {r \in responses : r.survey_id = sid} =
                  {ResponseRow(sid, i, run.inputs[i][1],
                       QuestionScore(qs[i], run.inputs[i][1]).val) :
                       i \in Answered(run.inputs)}
            /\ {c \in category_scores : c.survey_id = sid} =
                  {CategoryScoreRow(sid, k, PerCatGet(agg.per_category, k)) :
                       k \in 1..Len(FRAMEWORK(session.user_role))}
            /\ surveys[sid].overall_score = Some(agg.overall)

\* An edit that leaves a question blank has committed its first transaction.
C11_Witness ==
    /\ run.pc = "tx2"
    /\ run.edit_mode
    /\ Answered(run.inputs) # {}
    /\ Answered(run.inputs) # 1..Len(run.inputs)
    /\ \E f \in 1..Len(ai_feedback) : ai_feedback[f].survey_id = run.survey_id

C20_CategoryScoreOfAnsweredOnly ==
    run.pc = "tx2" =>
        LET qs == Questions(session.user_role)
            items(c) ==
                LET idx == SortedSeq({i \in Answered(run.inputs) : qs[i].cat = c})
                IN  [k \in 1..Len(idx) |->
                        <<QuestionScore(qs[idx[k]], run.inputs[idx[k]][1]).val,
                          qs[idx[k]].weight>>]
        IN  \A c \in 1..Len(FRAMEWORK(session.user_role)) :
                CategoryScoreRow(run.survey_id, c, WeightedMean(SumItems(items(c))).val)
                    \in category_scores

\* One user submitting and editing while the feedback call goes every way
\* and the commit of the feedback can fail.
FeedbackInputs == {<<Some(80), Some(48), None>>, <<None, None, Some(50)>>}
MaxFeedbackSubmits == 2
MaxFeedbackFaults == 1
NextFeedback ==
    \/ Login(EditLogins)
    \/ SubmitSurvey(FeedbackInputs, MaxFeedbackSubmits)
    \/ Tx1({"none"}, MaxFeedbackFaults)
    \/ FeedbackTx2({"none", "commit"}, FeedbackCases, MaxFeedbackFaults)
SpecFeedback == InitApp /\ [][NextFeedback]_vars

\* C12: feedback is generated after the scores are committed; the feedback
\* step changes no Survey, Response or CategoryScore row, and when the
\* generation fails (and the feedback commit succeeds) it stores a fallback
\* text as the overall AIFeedback of the survey.
C12_FeedbackFailureKeepsScores ==
    [][run.pc = "tx2" =>
        /\ surveys[run.survey_id].overall_score # None
        /\ surveys' = surveys
        /\ responses' = responses
        /\ category_scores' = category_scores
        /\ (run'.gen_failed /\ faults' = faults) =>
              /\ Len(ai_feedback') = Len(ai_feedback) + 1
              /\ LET f == ai_feedback'[Len(ai_feedback')]
                 IN  /\ f.survey_id = run.survey_id
                     /\ f.level = "overall"
                     /\ Head(f.feedback_text) \in {FALLBACK, "UNAVAILABLE"}]_vars

\* A submission whose feedback generation failed has been reported as saved.
C12_Witness ==
    /\ run.pc = "idle"
    /\ run.gen_failed
    /\ run.reported \in {"submitted", "updated"}
    /\ Len(ai_feedback) > 0
    /\ Head(ai_feedback[Len(ai_feedback)].feedback_text) = FALLBACK
    /\ \E sid \in 1..Len(surveys) : surveys[sid].overall_score # None

\* C28: one new-survey submission persists one Survey row: once its score
\* transaction has committed, a retry by _retry_db_operation (after the
\* feedback transaction failed) adds no second Survey row.
C28_RetryAddsNoSecondSurvey ==
    [][(run.pc = "tx1" /\ ~run.edit_mode /\ run.survey_id # 0)
          => Len(surveys') = Len(surveys)]_vars

\* The survey page when no database statement fails.
NextSurveyNoFault ==
    \/ Login(SurveyLogins)
    \/ Tick
    \/ SubmitSurvey(InputVectors, MaxSubmits)
    \/ Tx1({"none"}, MaxFaults)
    \/ FeedbackTx2({"none"}, TwoFeedbackCases, MaxFaults)
SpecSurveyNoFault == InitApp /\ [][NextSurveyNoFault]_vars

\* The weighted mean of the answered questions of the i-th category of the
\* framework, from the stored Response rows of the survey.
ExpectedCategoryScore(sid, i) ==
    LET qs == Questions(surveys[sid].role_level)
        rows == {r \in responses : r.survey_id = sid /\ qs[r.question_id].cat = i}
        idx == SortedSeq({r.question_id : r \in rows})
        row(q) == CHOOSE r \in rows : r.question_id = q
        items == [k \in 1..Len(idx) |-> <<row(idx[k]).score, qs[idx[k]].weight>>]
    IN  WeightedMean(SumItems(items)).val

Saved(sid) == surveys[sid].overall_score # None

\* C1: after any submission or edit, the CategoryScore row with category_id
\* = i holds the weighted mean of the answered questions of the i-th
\* category of the framework, and 0.0 when that category has none.
C1_CategoryScoreByPosition ==
    \A sid \in 1..Len(surveys) :
        Saved(sid) =>
            \A i \in 1..Len(FRAMEWORK(surveys[sid].role_level)) :
                \E c \in category_scores :
                    /\ c.survey_id = sid
                    /\ c.category_id = i
                    /\ c.category_score = ExpectedCategoryScore(sid, i)

\* C9: there is at most one Survey row per (user, period).
C9_OneSurveyPerUserPeriod ==
    \A i, j \in 1..Len(surveys) :
        (surveys[i].user_id = surveys[j].user_id /\ surveys[i].period = surveys[j].period)
            => i = j

\* C10: when a step of an edit's transaction fails, the transaction is
\* rolled back and the survey, its Response rows and its CategoryScore rows
\* are those it had before the edit.
C10_FailedEditRollsBack ==
    [][(run.pc = "tx1" /\ run.edit_mode /\ run'.step_failed)
          => (surveys' = surveys /\ responses' = responses
              /\ category_scores' = category_scores)]_vars

(***************************************************************************)
(* ai.py called on bounded inputs.                                         *)
(***************************************************************************)
\* What requests.post does on the first, second, ... attempt of one call.
ResultSeqs == [1..MaxHttpResults -> HttpResults]

GenerateFeedback ==
    /\ ai.fn = "none"
    /\ calc.fn = "none"
    /\ \E prompt_ok \in BOOLEAN, has_key \in BOOLEAN, results \in ResultSeqs :
          ai' = [fn |-> "generate", prompt_ok |-> prompt_ok, has_key |-> has_key,
                 results |-> results,
                 out |-> generate_feedback(prompt_ok, has_key, results)]
    /\ UNCHANGED <<calc, user_vars, session, today, survey_vars>>

CallDeepseek ==
    /\ ai.fn = "none"
    /\ calc.fn = "none"
    /\ \E has_key \in BOOLEAN, results \in ResultSeqs :
          ai' = [fn |-> "call", prompt_ok |-> TRUE, has_key |-> has_key,
                 results |-> results, out |-> call_deepseek(has_key, results)]
    /\ UNCHANGED <<calc, user_vars, session, today, survey_vars>>

NextAI == GenerateFeedback \/ CallDeepseek
SpecAI == InitApp /\ [][NextAI]_vars

\* One of the attempts the loop is allowed to make succeeds.
OkWithinRetries == \E k \in 1..deepseek_max_retries : ai.results[k] = "ok"

\* C13: generate_feedback never raises; when the prompt cannot be built, the
\* key is missing or no allowed attempt succeeds it returns a text starting
\* with the static fallback, and it returns the producer's text only after a
\* successful attempt.
C13_GenerateFeedbackFallsBack ==
    ai.fn = "generate" =>
        /\ ai.out.exc = "none"
        /\ (~ai.prompt_ok \/ ~ai.has_key \/ ~OkWithinRetries)
              => Head(ai.out.text) = FALLBACK
        /\ ai.out.text = <<"AI">>
              => (ai.prompt_ok /\ ai.has_key /\ OkWithinRetries)

\* generate_feedback was called with a key and every attempt was answered 401.
C13_Witness ==
    /\ ai.fn = "generate"
    /\ ai.prompt_ok
    /\ ai.has_key
    /\ \A k \in 1..deepseek_max_retries : ai.results[k] = "s401"
    /\ ai.out.text = <<FALLBACK, "NOTE_AUTH">>

\* C14: call_deepseek posts at most 3 times, sleeps 1 then 2 seconds after a
\* timeout, a connection error or a server error, and raises after the last
\* failed attempt, upon which generate_feedback returns the fallback text.
C14_BoundedRetries ==
    (ai.fn = "call" /\ ai.has_key) =>
        /\ ai.out.posts <= 3
        /\ Len(ai.out.sleeps) = ai.out.posts - 1
        /\ \A k \in 1..Len(ai.out.sleeps) :
              ai.results[k] \in {"timeout", "connection", "s500"}
                  => ai.out.sleeps[k] = (IF k = 1 THEN 1 ELSE 2)
        /\ ~OkWithinRetries =>
              /\ ai.out.exc # "none"
              /\ ai.out.posts = 3
              /\ Head(generate_feedback(TRUE, TRUE, ai.results).text) = FALLBACK

\* A call whose three attempts timed out, failed with 500 and timed out.
C14_Witness ==
    /\ ai.fn = "call"
    /\ ai.has_key
    /\ ai.results[1] = "timeout" /\ ai.results[2] = "s500" /\ ai.results[3] = "timeout"
    /\ ai.out.exc = "Timeout"
    /\ ai.out.sleeps = <<1, 2>>

\* C29: a 401 answer is not retried: call_deepseek makes one HTTP attempt
\* and raises at once, without a sleep and without a second request.
C29_AuthFailureNotRetried ==
    (ai.fn = "call" /\ ai.has_key /\ ai.results[1] = "s401") =>
        /\ ai.out.exc = "HTTPError: Authentication failed"
        /\ ai.out.posts = 1
        /\ ai.out.sleeps = <<>>

(***************************************************************************)
(* scoring.py called on bounded inputs.                                      *)
(***************************************************************************)
ActualValues == {-10, 0, 12, 24, 48, 50, 150}
TargetValues == {None, Some(0), Some(24), Some(100), Some(200)}
ScoreValues == {RInt(0), RInt(60), RInt(80)}
WeightValues == {0, 50}
MaxItems == 2
MaxCatsIn == 2

SeqsUpTo(S, n) == UNION {[1..k -> S] : k \in 0..n}

\* The dicts handed to compute_survey_scores: keys 1..k in insertion order.
CatInputs ==
    {[i \in 1..Len(ls) |-> <<i, ls[i]>>] :
        ls \in SeqsUpTo(SeqsUpTo(ScoreValues \X WeightValues, MaxItems), MaxCatsIn)}

ScoreQuestion ==
    /\ calc.fn = "none"
    /\ \E a \in ActualValues, t \in TargetValues, lib \in BOOLEAN :
        calc' = [CalcIdle EXCEPT !.fn = "question", !.actual = a, !.target = t,
                 !.lib = lib, !.out = compute_question_score(a, t, lib)]
    /\ UNCHANGED <<ai, user_vars, session, today, survey_vars>>

AggregateSurvey ==
    /\ calc.fn = "none"
    /\ \E cs \in CatInputs :
        calc' = [CalcIdle EXCEPT !.fn = "survey", !.cats = cs,
                 !.agg = compute_survey_scores(cs)]
    /\ UNCHANGED <<ai, user_vars, session, today, survey_vars>>

NextScore == ScoreQuestion \/ AggregateSurvey
SpecScore == InitApp /\ [][NextScore]_vars

\* C2: scoring a LIB question with actual = 0 and target > 0 yields the
\* maximum score 100.0 and does not crash.
C2_LibZeroActualIsHundred ==
    (/\ calc.fn = "question" /\ calc.lib /\ calc.actual = 0
     /\ calc.target # None /\ calc.target # Some(0))
        => calc.out = Returned(RHundred)

\* C3: compute_question_score never raises for any numeric actual, any
\* target and either formula kind, and compute_survey_scores never raises
\* for any category mapping.
C3_ScoringNeverRaises ==
    /\ calc.fn = "question" => calc.out.exc = "none"
    /\ calc.fn = "survey" => calc.agg.exc = "none"

(***************************************************************************)
(* compute_survey_scores on small dicts of (score, weight) pairs.          *)
(***************************************************************************)
AggPairs == {<<RInt(80), 50>>, <<RInt(60), 50>>, <<RInt(0), 10>>}
MaxAggItems == 2
MaxAggCats == 2

Aggregate ==
    /\ calc.fn = "none"
    /\ \E ls \in SeqsUpTo(SeqsUpTo(AggPairs, MaxAggItems), MaxAggCats) :
        LET cs == [i \in 1..Len(ls) |-> <<i, ls[i]>>]
        IN  calc' = [CalcIdle EXCEPT !.fn = "survey", !.cats = cs,
                 !.agg = compute_survey_scores(cs)]
    /\ UNCHANGED <<ai, user_vars, session, today, survey_vars>>

NextAgg == Aggregate
SpecAgg == InitApp /\ [][NextAgg]_vars

\* The plain mean of the category scores of a call.
MeanOfCategoryMeans(cats, per) ==
    WeightedMean(SumItems([i \in 1..Len(cats) |->
        <<PerCatGet(per, cats[i][1]), 100>>])).val

ScoreAnswer ==
    /\ calc.fn = "none"
    /\ \E a \in ActualValues, t \in TargetValues, f \in {"HIB", "LIB", "RAW_PERCENT"} :
        calc' = [CalcIdle EXCEPT !.fn = "answer", !.actual = a, !.target = t,
                 !.formula = f, !.lib = (f = "LIB"),
                 !.out = QuestionScore([formula |-> f, target |-> t], a)]
    /\ UNCHANGED <<ai, user_vars, session, today, survey_vars>>

NextQuestion == ScoreQuestion \/ ScoreAnswer
SpecQuestion == InitApp /\ [][NextQuestion]_vars

\* clamp(n / d * 100, 0, 100) for a non-zero d.
ClampPercent(n, d) ==
    IF (n < 0 /\ d > 0) \/ (n > 0 /\ d < 0) \/ n = 0 THEN RZero
    ELSE IF Abs(n) >= Abs(d) THEN RHundred
    ELSE Rat(100 * n, d)

\* C22: for a HIB question with target > 0 the score is
\* clamp(actual / target * 100, 0, 100): it lies in [0, 100] and does not
\* decrease when the actual grows.
C22_HibScore ==
    (calc.fn = "question" /\ ~calc.lib /\ calc.target # None
        /\ calc.target # Some(0) /\ calc.target[1] > 0) =>
        /\ calc.out = Returned(ClampPercent(calc.actual, calc.target[1]))
        /\ RLe(RZero, calc.out.val) /\ RLe(calc.out.val, RHundred)
        /\ \A a \in ActualValues :
              a >= calc.actual =>
                  /\ compute_question_score(a, calc.target, FALSE).exc = "none"
                  /\ RLe(calc.out.val,
                         compute_question_score(a, calc.target, FALSE).val)

\* The HIB question with actual 50 and target 200 was scored 25.0.
C22_Witness ==
    /\ calc.fn = "question"
    /\ ~calc.lib
    /\ calc.actual = 50
    /\ calc.target = Some(200)
    /\ calc.out = Returned(RInt(25))

\* C23: for a LIB question with actual > 0 and target > 0 the score is
\* clamp(target / actual * 100, 0, 100): it lies in [0, 100] and does not
\* increase when the actual grows.
C23_LibScore ==
    (calc.fn = "question" /\ calc.lib /\ calc.target # None
        /\ calc.target # Some(0) /\ calc.target[1] > 0 /\ calc.actual > 0) =>
        /\ calc.out = Returned(ClampPercent(calc.target[1], calc.actual))
        /\ RLe(RZero, calc.out.val) /\ RLe(calc.out.val, RHundred)
        /\ \A a \in ActualValues :
              a >= calc.actual =>
                  /\ compute_question_score(a, calc.target, TRUE).exc = "none"
                  /\ RLe(compute_question_score(a, calc.target, TRUE).val,
                         calc.out.val)

\* The LIB question with actual 48 and target 24 was scored 50.0.
C23_Witness ==
    /\ calc.fn = "question"
    /\ calc.lib
    /\ calc.actual = 48
    /\ calc.target = Some(24)
    /\ calc.out = Returned(RInt(50))

\* C24: for HIB and LIB, a null or zero target gives the score 0.0 for every
\* actual, also actual 0 under LIB; nothing is divided and nothing raised.
C24_DegenerateTargetIsZero ==
    (/\ calc.fn \in {"question", "answer"}
     /\ calc.formula # "RAW_PERCENT"
     /\ calc.target \in {None, Some(0)})
        => calc.out = Returned(RZero)

\* A LIB answer 0 with target 0 was scored 0.0 by save_survey_operation, and
\* so was a HIB answer without target.
C24_Witness ==
    /\ calc.fn = "answer"
    /\ calc.formula = "LIB"
    /\ calc.actual = 0
    /\ calc.target = Some(0)
    /\ calc.out = Returned(RZero)
    /\ QuestionScore([formula |-> "HIB", target |-> None], 50) = Returned(RZero)

\* C25: a RAW_PERCENT question scores clamp(actual, 0, 100) whatever its
\* target: 150 scores 100.0 and -10 scores 0.0.
C25_RawPercentIgnoresTarget ==
    (calc.fn = "answer" /\ calc.formula = "RAW_PERCENT") =>
        /\ calc.out = Returned(IF calc.actual < 0 THEN RZero
                               ELSE IF calc.actual > 100 THEN RHundred
                               ELSE RInt(calc.actual))
        /\ \A t \in TargetValues :
              QuestionScore([formula |-> "RAW_PERCENT", target |-> t],
                            calc.actual) = calc.out

\* The RAW_PERCENT answer 150 with target 200 was scored 100.0, and the
\* answer -10 scores 0.0.
C25_Witness ==
    /\ calc.fn = "answer"
    /\ calc.formula = "RAW_PERCENT"
    /\ calc.actual = 150
    /\ calc.target = Some(200)
    /\ calc.out = Returned(RHundred)
    /\ QuestionScore([formula |-> "RAW_PERCENT", target |-> Some(200)], -10)
           = Returned(RZero)

(***************************************************************************)
(* compute_survey_scores in exact and in float arithmetic on the dicts of  *)
(* a survey of the catalog: one list of pairs per category.                *)
(***************************************************************************)
MaxFloatItems == 2

AggregateRounded ==
    /\ calc.fn = "none"
    /\ \E ls \in [1..Len(ModelCategories) -> SeqsUpTo(AggPairs, MaxFloatItems)] :
        LET cs == [i \in 1..Len(ModelCategories) |-> <<i, ls[i]>>]
        IN  calc' = [CalcIdle EXCEPT !.fn = "survey", !.cats = cs,
                 !.agg = compute_survey_scores(cs),
                 !.agg_rounded = compute_survey_scores_rounded(cs)]
    /\ UNCHANGED <<ai, user_vars, session, today, survey_vars>>

NextAggFloat == AggregateRounded
SpecAggFloat == InitApp /\ [][NextAggFloat]_vars

\* The dicts that hold the same categories in another order, or the same
\* pairs in another order inside one category.
Reordered(cats) ==
    LET Orderings(n) ==
            {p \in [1..n -> 1..n] : \A i, j \in 1..n : p[i] = p[j] => i = j}
    IN  {[k \in 1..Len(cats) |-> cats[p[k]]] : p \in Orderings(Len(cats))}
        \cup
        UNION {{[cats EXCEPT ![i] =
                     <<cats[i][1],
                       [k \in 1..Len(cats[i][2]) |-> cats[i][2][p[k]]]>>] :
                   p \in Orderings(Len(cats[i][2]))} : i \in 1..Len(cats)}

\* The tolerance two float results are compared with: a few units of the
\* last mantissa bit, relative to the larger value.
WithinTolerance(x, y) ==
    LET diff == IF RLt(x, y) THEN RAdd(y, RMul(RInt(-1), x))
                ELSE RAdd(x, RMul(RInt(-1), y))
        big == IF RLt(x, y) THEN y ELSE x
    IN  RLe(diff, RMul(<<1, Pow2(MantissaBits - 4)>>, big))

\* C26 as stated: permuting the pairs inside a category, or the order of the
\* categories, yields the same overall score and the same score for each
\* category, and recomputing yields identical outputs.
C26_OrderIndependentExactly ==
    calc.fn = "survey" =>
        /\ compute_survey_scores_rounded(calc.cats) = calc.agg_rounded
        /\ \A r \in Reordered(calc.cats) :
              compute_survey_scores_rounded(r) = calc.agg_rounded

\* C26, amended: recomputing from the same inputs in the same order yields
\* identical outputs; permuting the pairs inside a category or the order of
\* the categories yields the same overall and category scores in exact
\* arithmetic, and float results that agree within the tolerance.
C26_OrderIndependentWithinTolerance ==
    calc.fn = "survey" =>
        /\ compute_survey_scores(calc.cats) = calc.agg
        /\ compute_survey_scores_rounded(calc.cats) = calc.agg_rounded
        /\ \A r \in Reordered(calc.cats) :
              /\ compute_survey_scores(r) = calc.agg
              /\ LET f == compute_survey_scores_rounded(r)
                 IN  /\ WithinTolerance(f.overall, calc.agg_rounded.overall)
                     /\ \A i \in 1..Len(calc.cats) :
                           WithinTolerance(
                               PerCatGet(f.per_category, i),
                               PerCatGet(calc.agg_rounded.per_category, i))

\* A call on two categories with different scores whose overall float score
\* changes in the last bits when the categories are taken in the other
\* order.
C26_Witness ==
    /\ calc.fn = "survey"
    /\ PerCatGet(calc.agg.per_category, 1) # PerCatGet(calc.agg.per_category, 2)
    /\ \E r \in Reordered(calc.cats) :
          /\ r # calc.cats
          /\ compute_survey_scores_rounded(r).overall # calc.agg_rounded.overall
          /\ compute_survey_scores(r) = calc.agg

(***************************************************************************)
(* app.py: _safe_eval_formula.  An expression is its syntax tree, a node   *)
(* <<class, name or operator, children>>.                                  *)
(***************************************************************************)
Constant(tok) == <<"Constant", tok, <<>>>>
Name(id) == <<"Name", id, <<>>>>
BinOp(op, left, right) == <<"BinOp", op, <<left, right>>>>
Call(func, a, b) == <<"Call", func, <<a, b>>>>

\* The value of a numeric literal.
ConstantValue(tok) == CASE tok = "0" -> 0 [] tok = "1" -> 1 [] tok = "2" -> 2

\* The variables dict of the call: name -> number.
Variables == [spent |-> 50, budget |-> 100, total |-> 0]

Operators == {"Add", "Sub", "Mult", "Div"}
allowed_funcs == {"min", "max"}
Leaves == {Constant("1")} \cup {Name(id) : id \in DOMAIN Variables}

\* The expressions with exactly k operators or calls.
RECURSIVE ExprsOfSize(_)
ExprsOfSize(k) ==
    IF k = 0 THEN Leaves
    ELSE UNION {
           {BinOp(op, l, r) : op \in Operators, l \in ExprsOfSize(i),
                              r \in ExprsOfSize(k - 1 - i)}
           \cup
           {Call(f, l, r) : f \in allowed_funcs, l \in ExprsOfSize(i),
                            r \in ExprsOfSize(k - 1 - i)} : i \in 0..(k - 1)}

MaxOperators == 2

RMin(x, y) == IF RLt(y, x) THEN y ELSE x
RMax(x, y) == IF RLt(x, y) THEN y ELSE x

\* SafeEvaluator.visit with the division left unprotected.
RECURSIVE visit_unprotected(_, _)
visit_unprotected(node, variables) ==
    IF node[1] = "BinOp"
    THEN LET left == visit_unprotected(node[3][1], variables)
             right == visit_unprotected(node[3][2], variables)
         IN  IF left.exc # "none" THEN left
             ELSE IF right.exc # "none" THEN right
             ELSE IF node[2] = "Add" THEN Returned(RAdd(left.val, right.val))
             ELSE IF node[2] = "Sub"
             THEN Returned(RAdd(left.val, RMul(RInt(-1), right.val)))
             ELSE IF node[2] = "Mult" THEN Returned(RMul(left.val, right.val))
             ELSE IF node[2] = "Div"
             THEN IF right.val[1] = 0 THEN Raised("ZeroDivisionError")
                  ELSE Returned(RDiv(left.val, right.val))
             ELSE Raised("ValueError")
    ELSE IF node[1] = "Constant" THEN Returned(RInt(ConstantValue(node[2])))
    ELSE IF node[1] = "Name"
    THEN IF node[2] \in DOMAIN variables THEN Returned(RInt(variables[node[2]]))
         ELSE Raised("ValueError")
    ELSE IF node[1] = "Call"
    THEN IF node[2] \in allowed_funcs
         THEN LET a == visit_unprotected(node[3][1], variables)
                  b == visit_unprotected(node[3][2], variables)
              IN  IF a.exc # "none" THEN a
                  ELSE IF b.exc # "none" THEN b
                  ELSE IF node[2] = "min" THEN Returned(RMin(a.val, b.val))
                  ELSE Returned(RMax(a.val, b.val))
         ELSE Raised("ValueError")
    ELSE Raised("ValueError")

\* SafeEvaluator.visit, lines 267-347: the value of a node or the exception
\* it raises.
RECURSIVE visit(_, _)
visit(node, variables) ==
    IF node[1] = "BinOp"
    THEN LET left == visit(node[3][1], variables)
             right == visit(node[3][2], variables)
         IN  IF left.exc # "none" THEN left
             ELSE IF right.exc # "none" THEN right
             ELSE IF node[2] = "Add" THEN Returned(RAdd(left.val, right.val))
             ELSE IF node[2] = "Sub"
             THEN Returned(RAdd(left.val, RMul(RInt(-1), right.val)))
             ELSE IF node[2] = "Mult" THEN Returned(RMul(left.val, right.val))
             ELSE IF node[2] = "Div"
             THEN LET q == IF right.val[1] = 0 THEN Raised("ZeroDivisionError")
                           ELSE Returned(RDiv(left.val, right.val))
                  IN  IF q.exc # "none" THEN Returned(RZero) ELSE q
             ELSE Raised("ValueError")
    ELSE IF node[1] = "Constant" THEN Returned(RInt(ConstantValue(node[2])))
    ELSE IF node[1] = "Name"
    THEN IF node[2] \in DOMAIN variables THEN Returned(RInt(variables[node[2]]))
         ELSE Raised("ValueError")
    ELSE IF node[1] = "Call"
    THEN IF node[2] \in allowed_funcs
         THEN LET a == visit(node[3][1], variables)
                  b == visit(node[3][2], variables)
              IN  IF a.exc # "none" THEN a
                  ELSE IF b.exc # "none" THEN b
                  ELSE IF node[2] = "min" THEN Returned(RMin(a.val, b.val))
                  ELSE Returned(RMax(a.val, b.val))
         ELSE Raised("ValueError")
    ELSE Raised("ValueError")

\* _safe_eval_formula(expr, variables), lines 348-352: None when the
\* evaluation raises.
_safe_eval_formula(expr, variables) ==
    LET v == visit(expr, variables)
    IN  IF v.exc # "none" THEN None ELSE Some(v.val)

\* A call on an expression of at most MaxOperators operators and calls.
SafeEvalFormula ==
    /\ calc.fn = "none"
    /\ LET EvalFormula(e) ==
               calc' = [CalcIdle EXCEPT !.fn = "formula", !.expr = e,
                        !.result = _safe_eval_formula(e, Variables)]
       IN  \/ \E e \in Leaves : EvalFormula(e)
           \/ \E k \in 1..MaxOperators : \E i \in 0..(k - 1) :
                  \E l \in ExprsOfSize(i) : \E r \in ExprsOfSize(k - 1 - i) :
                     \E e \in {BinOp(op, l, r) : op \in Operators}
                               \cup {Call(f, l, r) : f \in allowed_funcs} :
                         EvalFormula(e)
    /\ UNCHANGED <<ai, user_vars, session, today, survey_vars>>

NextFormula == SafeEvalFormula
SpecFormula == InitApp /\ [][NextFormula]_vars

\* The arithmetic value of an expression, a quotient by 0 counting 0.
RECURSIVE ArithmeticValue(_)
ArithmeticValue(node) ==
    LET x == ArithmeticValue(node[3][1])
        y == ArithmeticValue(node[3][2])
    IN  CASE node[1] = "Constant" -> RInt(ConstantValue(node[2]))
          [] node[1] = "Name" -> RInt(Variables[node[2]])
          [] node[1] = "Call" /\ node[2] = "min" -> RMin(x, y)
          [] node[1] = "Call" /\ node[2] = "max" -> RMax(x, y)
          [] node[1] = "BinOp" /\ node[2] = "Add" -> RAdd(x, y)
          [] node[1] = "BinOp" /\ node[2] = "Sub" -> RAdd(x, RMul(RInt(-1), y))
          [] node[1] = "BinOp" /\ node[2] = "Mult" -> RMul(x, y)
          [] node[1] = "BinOp" /\ node[2] = "Div" ->
                 IF y = RZero THEN RZero ELSE RDiv(x, y)

\* C27: for a formula of constants, bound variables, + - * / and min/max,
\* _safe_eval_formula returns the arithmetic value of the expression, where
\* a division by 0 evaluates to 0.0; it neither raises nor returns None.
C27_SafeEvalIsArithmetic ==
    calc.fn = "formula" => calc.result = Some(ArithmeticValue(calc.expr))

\* min(spent/budget, 1) was evaluated to 0.5, and uptime/total with
\* total = 0 evaluates to 0.0.
C27_Witness ==
    /\ calc.fn = "formula"
    /\ calc.expr = Call("min", BinOp("Div", Name("spent"), Name("budget")),
                        Constant("1"))
    /\ calc.result = Some(Rat(1, 2))
    /\ _safe_eval_formula(BinOp("Div", Name("spent"), Name("total")), Variables)
           = Some(RZero)

(***************************************************************************)
(* The survey page for users whose row lacks an id their role requires:    *)
(* ensure_user writes None for every id it is not given.                   *)
(***************************************************************************)
InitIncomplete ==
    /\ calc = CalcIdle
    /\ ai = AiIdle
    /\ users = BootstrapUsers \o
           << UserRow("zone2", "Zone", NULL, NULL, NULL, NULL),
              UserRow("city2", "City", "East", "CCU", NULL, NULL) >>
    /\ session = NoSession
    /\ today = 1
    /\ surveys = <<>>
    /\ responses = {}
    /\ category_scores = {}
    /\ ai_feedback = <<>>
    /\ run = RunIdle
    /\ submits = 0
    /\ faults = 0
    /\ admin_ops = 0
    /\ admin_msg = "none"

MaxIncompleteSubmits == 2
NextIncomplete ==
    \/ Login({2, 7, 8})
    \/ SubmitSurvey(FeedbackInputs, MaxIncompleteSubmits)
    \/ Tx1({"none"}, MaxFaults)
    \/ FeedbackTx2({"none"}, TwoFeedbackCases, MaxFaults)
SpecIncomplete == InitIncomplete /\ [][NextIncomplete]_vars

====
